---- MODULE Spec2Model ----
\* Verification model of run/png/model.py (chainer-glow): the multi-scale flow
\* encoder (InferenceModel), its reversal into a decoder (GenerativeModel),
\* the data-dependent Actnorm initialization and the parameter file protocol.
EXTENDS Integers, Sequences, FiniteSets, TLC

VARIABLES
    hp,               \* self.hyperparams of the InferenceModel
    need_initialize,  \* InferenceModel.need_initialize
    map_flows_level,  \* InferenceModel.map_flows_level[level][depth] = <<actnorm, conv_1x1, coupling>>
    params,           \* InferenceModel.parameters: parameter key -> storage address
    heap,             \* array storage: address -> value held
    gen,              \* the GenerativeModel built by reverse(), if any
    res,              \* what the last operation returned (or that it raised)
    hist,             \* history: what happened to the current InferenceModel instance
    fs,               \* the checkpoint directory: file name -> content written so far
    pc,               \* position of the running serialize() call
    tmp_filename,     \* serialize_parameter's local tmp_filename
    uuid_next         \* source of uuid.uuid4() values

vars == <<hp, need_initialize, map_flows_level, params, heap, gen, res, hist,
          fs, pc, tmp_filename, uuid_next>>

model_vars == <<hp, need_initialize, map_flows_level, params, heap, gen, hist>>
save_vars == <<fs, pc, tmp_filename, uuid_next>>

--------------------------------------------------------------------------
\* Bounds of the model.
MaxLevels == 2      \* hyperparams.levels ranges over 1..MaxLevels
MaxDepth == 2       \* hyperparams.depth_per_level ranges over 1..MaxDepth
MaxFactor == 3      \* hyperparams.squeeze_factor ranges over 2..MaxFactor
MaxUpdates == 1     \* optimizer updates and initialization passes per model instance
MaxSaves == 2       \* serialize() calls

\* Default `factor` of glow.nn.chainer.functions.squeeze / unsqueeze.
DefaultFactor == 2

RECURSIVE Pow(_, _)
Pow(b, e) == IF e = 0 THEN 1 ELSE b * Pow(b, e - 1)

Hyperparameters ==
    [levels : 1..MaxLevels, depth_per_level : 1..MaxDepth,
     squeeze_factor : 2..MaxFactor, lu_decomposition : BOOLEAN]

LevelRange(h) == 0..(h.levels - 1)
DepthRange(h) == 0..(h.depth_per_level - 1)

\* Names of the arrays registered per (level, depth): actnorm_{l}_{d},
\* invertible_1x1_conv_{l}_{d}, affine_coupling_{l}_{d}.
ParamNames == <<"scale", "bias", "W", "conv_1", "conv_2", "conv_scale", "conv_bias">>
NameSet == {ParamNames[i] : i \in 1..Len(ParamNames)}
Keys(h) == LevelRange(h) \X DepthRange(h) \X NameSet
NameIdx(n) == CHOOSE i \in 1..Len(ParamNames) : ParamNames[i] = n
KeyIdx(h, k) == (k[1] * h.depth_per_level + k[2]) * Len(ParamNames) + NameIdx(k[3])
KeyAt(h, i) == CHOOSE k \in Keys(h) : KeyIdx(h, k) = i
NumKeys(h) == h.levels * h.depth_per_level * Len(ParamNames)

--------------------------------------------------------------------------
\* Array values. A value records where it came from and how many optimizer
\* updates it has seen; inv marks the matrix inverse of such a value.
Value(tag, src, n) == [tag |-> tag, src |-> src, n |-> n, steps |-> 0, inv |-> FALSE]
FreshValue == Value("random", 0, 0)
FileValue == Value("file", 0, 0)
Inverse(v) == [v EXCEPT !.inv = ~v.inv]
Update(v) == [v EXCEPT !.steps = v.steps + 1]

\* Values of the parameters named by an address map p in storage h.
ParamVals(p, h) == [k \in DOMAIN p |-> h[p[k]]]
Range(f) == {f[x] : x \in DOMAIN f}
\* Smallest address not in use.
FreshAddr(used) ==
    LET free == (1..(Cardinality(used) + 1)) \ used
    IN CHOOSE a \in free : \A b \in free : a <= b

--------------------------------------------------------------------------
\* Tensors. A tensor has a shape (c, h, w) and its content, written as the
\* input batch src followed by the operations applied to it so far.
Op(op, a, p, other) == [op |-> op, a |-> a, p |-> p, other |-> other]
Tensor(c, h, w, src, ops) == [ok |-> TRUE, c |-> c, h |-> h, w |-> w, src |-> src, ops |-> ops]
Raised == [ok |-> FALSE, c |-> 0, h |-> 0, w |-> 0, src |-> 0, ops |-> <<>>]
Shape(t) == <<t.c, t.h, t.w>>
Top(t) == t.ops[Len(t.ops)]
Pop(t) == [t EXCEPT !.ops = SubSeq(t.ops, 1, Len(t.ops) - 1)]
Push(t, o) == [t EXCEPT !.ops = Append(t.ops, o)]
HasTop(t, op) == Len(t.ops) > 0 /\ Top(t).op = op

\* squeeze(x, factor): (B,C,H,W) -> (B, C*f*f, H/f, W/f).
squeeze(x, factor) ==
    IF ~x.ok \/ x.h % factor # 0 \/ x.w % factor # 0 THEN Raised
    ELSE Push([x EXCEPT !.c = x.c * factor * factor, !.h = x.h \div factor,
                        !.w = x.w \div factor],
              Op("squeeze", factor, <<>>, <<>>))

\* unsqueeze(x, factor): the structural inverse of squeeze with the same factor.
unsqueeze(x, factor) ==
    IF ~x.ok \/ x.c % (factor * factor) # 0 THEN Raised
    ELSE LET y == [x EXCEPT !.c = x.c \div (factor * factor), !.h = x.h * factor,
                            !.w = x.w * factor]
         IN IF HasTop(x, "squeeze") /\ Top(x).a = factor
            THEN Pop(y)
            ELSE Push(y, Op("unsqueeze", factor, <<>>, <<>>))

\* out[:, :n // 2] and out[:, n // 2:]
SliceLow(out) ==
    IF ~out.ok THEN Raised
    ELSE Push([out EXCEPT !.c = out.c \div 2], Op("low", out.c \div 2, <<>>, <<>>))
SliceHigh(out) ==
    IF ~out.ok THEN Raised
    ELSE Push([out EXCEPT !.c = out.c - (out.c \div 2)], Op("high", out.c \div 2, <<>>, <<>>))

\* cf.concat((zi, out), axis=1)
concat(zi, out) ==
    IF ~zi.ok \/ ~out.ok \/ zi.h # out.h \/ zi.w # out.w THEN Raised
    ELSE IF /\ HasTop(zi, "low") /\ HasTop(out, "high")
            /\ Top(zi).a = Top(out).a
            /\ zi.src = out.src /\ Pop(zi).ops = Pop(out).ops
         THEN [Pop(out) EXCEPT !.c = zi.c + out.c]
         ELSE Push([out EXCEPT !.c = zi.c + out.c], Op("concat", zi.src, <<>>, zi.ops))

\* The input batches: RGB images whose sides are squeeze_factor^levels.
Side(h) == Pow(h.squeeze_factor, h.levels)
Image(h, id) == Tensor(3, Side(h), Side(h), id, <<>>)
Inputs(h) == {Image(h, 1)}

--------------------------------------------------------------------------
\* The three layer types (glow.nn.chainer.actnorm, invertible_1x1_conv,
\* affine_coupling). A layer preserves the shape of a tensor with its channel
\* count and rejects any other; its action on the content is determined by its
\* parameter values. A reverse layer undoes the forward layer whose
\* parameters it inverts and is some other map on anything else.
Layer(kind, channels, level, depth) ==
    [kind |-> kind, channels |-> channels, level |-> level, depth |-> depth]

ForwardOp(kind) == IF kind = "lu_conv_1x1" THEN "conv_1x1" ELSE kind

LayerForward(kind, channels, p, x) ==
    IF ~x.ok \/ x.c # channels THEN Raised
    ELSE Push(x, Op(ForwardOp(kind), 0, p, <<>>))

Inverts(kind, p, q) ==
    IF kind = "conv_1x1" THEN p = <<Inverse(q[1])>> ELSE p = q

LayerReverse(kind, channels, p, x) ==
    IF ~x.ok \/ x.c # channels THEN Raised
    ELSE IF HasTop(x, kind) /\ Top(x).a = 0 /\ Inverts(kind, p, Top(x).p)
         THEN Pop(x)
         ELSE Push(x, Op(kind, 1, p, <<>>))

\* The parameter values a layer of the InferenceModel reads, from the values
\* P of self.parameters.
LayerNames(kind) ==
    IF kind = "actnorm" THEN <<"scale", "bias">>
    ELSE IF kind = "coupling" THEN <<"conv_1", "conv_2", "conv_scale", "conv_bias">>
    ELSE <<"W">>
LayerParams(layer, P) ==
    [i \in 1..Len(LayerNames(layer.kind)) |->
        P[<<layer.level, layer.depth, LayerNames(layer.kind)[i]>>]]

--------------------------------------------------------------------------
\* InferenceModel.__init__: channel count of the parameters of each level.
RECURSIVE channels_x(_, _)
channels_x(h, level) ==
    IF level = 0
    THEN 3 * Pow(h.squeeze_factor, 2)
    ELSE channels_x(h, level - 1) * (Pow(h.squeeze_factor, 2) \div 2)

\* InferenceModel.__init__: one flow step = [actnorm, conv_1x1, coupling_layer].
NewFlow(h, level, depth) ==
    << Layer("actnorm", channels_x(h, level), level, depth),
       Layer(IF h.lu_decomposition THEN "lu_conv_1x1" ELSE "conv_1x1",
             channels_x(h, level), level, depth),
       Layer("coupling", channels_x(h, level), level, depth) >>

NewFlows(h) == [level \in LevelRange(h) |-> [depth \in DepthRange(h) |-> NewFlow(h, level, depth)]]
NewParams(h) == [k \in Keys(h) |-> KeyIdx(h, k)]
NewHeap(h) == [a \in 1..NumKeys(h) |-> FreshValue]

NoGen == [built |-> FALSE, flows |-> <<>>, params |-> <<>>, source |-> <<>>]
NoHist == [loaded |-> FALSE, inits |-> 0, trained |-> 0]
NoRes == [op |-> "none"]

--------------------------------------------------------------------------
\* The parameter file. save_hdf5 writes one entry per registered array, in
\* registration order; a file is complete when it holds them all.
params_filename == <<"model.hdf5", 0>>
uuid4(n) == <<"uuid", n>>
FileOf(h, P) == [i \in 1..NumKeys(h) |-> <<KeyAt(h, i), P[KeyAt(h, i)]>>]
Complete(h, content) == Len(content) = NumKeys(h)
Exists(path, name) == path = "ckpt" /\ name \in DOMAIN fs

\* load_hdf5(file, self.parameters): copies every entry of the file into the
\* registered array of that name, in place.
load_hdf5(content, p, hstore) ==
    [a \in DOMAIN hstore |->
        IF \E i \in 1..Len(content) : p[content[i][1]] = a
        THEN content[CHOOSE i \in 1..Len(content) : p[content[i][1]] = a][2]
        ELSE hstore[a]]

\* Variant: the flag cleared as soon as the file is seen to exist.
need_initialize_before_load(exists, raises) == ~exists

\* Lines 96-104: the flag after the load attempt. The flag is cleared after
\* load_hdf5 returns, so only when the file exists and load_hdf5 did not raise.
need_initialize_after(exists, raises) == ~(exists /\ ~raises)

\* InferenceModel.__init__(hyperparams, hdf5_path). hdf5_path is None
\* ("none"), the checkpoint directory ("ckpt") or a directory holding no
\* parameter file ("empty"); read_error: load_hdf5 raises on opening the file.
\* A file that lacks an entry makes load_hdf5 raise after it has copied the
\* entries present. The exception is caught and printed.
Construction(h, hdf5_path, read_error) ==
    LET exists == hdf5_path # "none" /\ Exists(hdf5_path, params_filename)
        content == IF exists THEN fs[params_filename] ELSE <<>>
        raises == exists /\ (read_error \/ ~Complete(h, content))
    IN [map_flows_level |-> NewFlows(h),
        params |-> NewParams(h),
        heap |-> IF exists /\ ~read_error
                 THEN load_hdf5(content, NewParams(h), NewHeap(h))
                 ELSE NewHeap(h),
        need_initialize |-> need_initialize_after(exists, raises),
        hist |-> [NoHist EXCEPT !.loaded = exists /\ ~raises],
        res |-> [op |-> "init", path |-> hdf5_path, exists |-> exists,
                 loaded |-> exists /\ ~raises, raised |-> FALSE]]

InferenceModel_init(hdf5_path, read_error) ==
    LET new == Construction(hp, hdf5_path, read_error)
    IN /\ pc = "idle"
       /\ map_flows_level' = new.map_flows_level
       /\ params' = new.params
       /\ heap' = new.heap
       /\ need_initialize' = new.need_initialize
       /\ gen' = NoGen
       /\ hist' = new.hist
       /\ res' = new.res
       /\ UNCHANGED <<hp, save_vars>>

--------------------------------------------------------------------------
\* InferenceModel.__call__(x). A run is the state of the loop: the current
\* tensor out, the latents z appended so far, the layers executed so far
\* (log) and the tensors given to the Actnorm layers (fed). ok is FALSE once a
\* call has raised.
Run(x) == [ok |-> TRUE, out |-> x, z |-> <<>>, log |-> <<>>, fed |-> <<>>]

Executed(layer, level, depth) ==
    [kind |-> ForwardOp(layer.kind), level |-> layer.level, depth |-> layer.depth,
     slot |-> <<level, depth>>]

Set(run, y) == IF y.ok THEN [run EXCEPT !.out = y] ELSE [run EXCEPT !.ok = FALSE]

\* out, logdet = layer(out)
Forward(run, layer, level, depth, P) ==
    IF ~run.ok THEN run
    ELSE LET y == LayerForward(layer.kind, layer.channels, LayerParams(layer, P), run.out)
         IN IF y.ok
            THEN [run EXCEPT !.out = y,
                             !.log = Append(@, Executed(layer, level, depth)),
                             !.fed = IF layer.kind = "actnorm"
                                     THEN Append(@, run.out) ELSE @]
            ELSE [run EXCEPT !.ok = FALSE]

\* actnorm, conv_1x1, coupling_layer = self[level][depth], applied in this order
forward_onestep(run, level, depth, P) ==
    LET f == map_flows_level[level][depth]
    IN Forward(Forward(Forward(run, f[1], level, depth, P),
                       f[2], level, depth, P),
               f[3], level, depth, P)

RECURSIVE CallDepths(_, _, _, _)
CallDepths(run, level, depth, P) ==
    IF depth >= hp.depth_per_level \/ ~run.ok THEN run
    ELSE CallDepths(forward_onestep(run, level, depth, P), level, depth + 1, P)

\* the split that ends a level
CallSplit(run, level) ==
    IF ~run.ok THEN run
    ELSE IF level = hp.levels - 1
         THEN [run EXCEPT !.z = Append(@, run.out)]
         ELSE [run EXCEPT !.z = Append(@, SliceLow(run.out)), !.out = SliceHigh(run.out)]

CallLevel(run, level, P) ==
    CallSplit(CallDepths(Set(run, squeeze(run.out, hp.squeeze_factor)), level, 0, P), level)

RECURSIVE CallLevels(_, _, _)
CallLevels(run, level, P) ==
    IF level >= hp.levels \/ ~run.ok THEN run
    ELSE CallLevels(CallLevel(run, level, P), level + 1, P)

InferenceModel_call(x) == CallLevels(Run(x), 0, ParamVals(params, heap))

Reachable(p, g) == Range(p) \cup (IF g.built THEN Range(g.params) ELSE {})
Restrict(h, S) == [a \in S |-> h[a]]

Call(x) ==
    LET run == InferenceModel_call(x)
    IN /\ res' = [op |-> "call", x |-> x, ok |-> run.ok, z |-> run.z, log |-> run.log]
       /\ UNCHANGED <<model_vars, save_vars>>

--------------------------------------------------------------------------
\* InferenceModel.initialize_actnorm_weights(x). The loop state carries, besides
\* the fields of a run, the argument x as reassigned after each level, the
\* parameter addresses p and the storage h as rebound so far, and acts: the
\* activation the statistics of each visited (level, depth) were taken from.
InitRun(x) ==
    [ok |-> TRUE, out |-> x, z |-> <<>>, log |-> <<>>, fed |-> <<>>, x |-> x,
     p |-> params, h |-> heap, acts |-> <<>>]

GenAddrs == IF gen.built THEN Range(gen.params) ELSE {}

\* params.scale.W.data = 1.0 / std ; params.bias.b.data = -mean : each a new
\* array computed from out.data, bound in place of the old one.
SetStatistics(ir, level, depth) ==
    LET a1 == FreshAddr(Range(ir.p) \cup GenAddrs)
        a2 == FreshAddr(Range(ir.p) \cup GenAddrs \cup {a1})
    IN [ir EXCEPT
          !.p = [@ EXCEPT ![<<level, depth, "scale">>] = a1,
                          ![<<level, depth, "bias">>] = a2],
          !.h = (a1 :> Value("1/std", ir.out.src, Len(ir.out.ops)))
                @@ (a2 :> Value("-mean", ir.out.src, Len(ir.out.ops))) @@ @,
          !.acts = Append(@, [level |-> level, depth |-> depth, inp |-> ir.out])]

InitStep(ir, level, depth) ==
    LET set == SetStatistics(ir, level, depth)
    IN forward_onestep(set, level, depth, ParamVals(set.p, set.h))

RECURSIVE InitDepths(_, _, _)
InitDepths(ir, level, depth) ==
    IF depth >= hp.depth_per_level \/ ~ir.ok THEN ir
    ELSE InitDepths(InitStep(ir, level, depth), level, depth + 1)

\* Variant: the pass continues with the first half.
InitSplit_low(ir, level) ==
    IF ~ir.ok THEN ir
    ELSE IF level < hp.levels - 1
         THEN [ir EXCEPT !.x = SliceLow(ir.out)]
         ELSE ir

\* if level < levels - 1: x = out[:, n // 2:]
InitSplit(ir, level) ==
    IF ~ir.ok THEN ir
    ELSE IF level < hp.levels - 1
         THEN [ir EXCEPT !.x = SliceHigh(ir.out)]
         ELSE ir

InitLevel(ir, level) ==
    InitSplit(InitDepths(Set(ir, squeeze(ir.x, hp.squeeze_factor)), level, 0), level)

RECURSIVE InitLevels(_, _)
InitLevels(ir, level) ==
    IF level >= hp.levels \/ ~ir.ok THEN ir
    ELSE InitLevels(InitLevel(ir, level), level + 1)

initialize_actnorm_weights(x) ==
    LET ir == InitLevels(InitRun(x), 0)
    IN /\ hist.inits + hist.trained < MaxUpdates
       /\ params' = ir.p
       /\ heap' = Restrict(ir.h, Reachable(ir.p, gen))
       /\ hist' = [hist EXCEPT !.inits = @ + 1]
       /\ res' = [op |-> "initialize", x |-> x, ok |-> ir.ok, acts |-> ir.acts,
                  before |-> ParamVals(params, heap)]
       /\ UNCHANGED <<hp, need_initialize, map_flows_level, gen, save_vars>>

\* An optimizer update (the training loop): every array of self.parameters is
\* updated in place.
Train ==
    /\ pc = "idle"
    /\ hist.inits + hist.trained < MaxUpdates
    /\ heap' = [a \in DOMAIN heap |-> IF a \in Range(params) THEN Update(heap[a]) ELSE heap[a]]
    /\ hist' = [hist EXCEPT !.trained = @ + 1]
    /\ res' = [op |-> "train"]
    /\ UNCHANGED <<hp, need_initialize, map_flows_level, params, gen, save_vars>>

--------------------------------------------------------------------------
\* Reversal construction. m is the construction so far: the storage h and
\* the addresses alloc of the arrays allocated for the new model. Each
\* reverse_* function allocates the arrays of its target Parameters and
\* returns the reverse layer holding them (arr).
RECURSIVE Alloc(_, _)
Alloc(used, n) ==
    IF n = 0 THEN <<>>
    ELSE LET a == FreshAddr(used) IN <<a>> \o Alloc(used \cup {a}, n - 1)

SourceArrays(layer) ==
    [i \in 1..Len(LayerNames(layer.kind)) |->
        params[<<layer.level, layer.depth, LayerNames(layer.kind)[i]>>]]

ReverseLayer(kind, layer, arr) ==
    [kind |-> kind, channels |-> layer.channels, level |-> layer.level,
     depth |-> layer.depth, arr |-> arr]

\* target.X.data[...] = to_cpu(source.X.data): the values are copied into the
\* arrays of the target.
CopyInto(m, layer, kind) ==
    LET src == SourceArrays(layer)
        arr == Alloc(Range(params) \cup m.alloc, Len(src))
    IN [ok |-> m.ok,
        h |-> [a \in Range(arr) |-> m.h[src[CHOOSE i \in 1..Len(arr) : arr[i] = a]]] @@ m.h,
        alloc |-> m.alloc \cup Range(arr),
        layer |-> ReverseLayer(kind, layer, arr)]

\* Variant: the target keeps the arrays of the source.
reverse_actnorm_shared(layer, m) ==
    [ok |-> m.ok, h |-> m.h, alloc |-> m.alloc \cup Range(SourceArrays(layer)),
     layer |-> ReverseLayer("actnorm", layer, SourceArrays(layer))]

reverse_actnorm(layer, m) == CopyInto(m, layer, "actnorm")

\* target.conv.W.data = to_cpu(inv_weight...): the target's weight is the new
\* array holding the inverse of the source matrix, for either parameterization.
reverse_conv_1x1(layer, m) ==
    IF layer.kind \in {"conv_1x1", "lu_conv_1x1"}
    THEN LET src == SourceArrays(layer)
             arr == Alloc(Range(params) \cup m.alloc, 1)
         IN [ok |-> m.ok,
             h |-> (arr[1] :> Inverse(m.h[src[1]])) @@ m.h,
             alloc |-> m.alloc \cup {arr[1]},
             layer |-> ReverseLayer("conv_1x1", layer, arr)]
    ELSE [ok |-> FALSE, h |-> m.h, alloc |-> m.alloc, layer |-> layer]  \* NotImplementedError

reverse_coupling_layer(layer, m) == CopyInto(m, layer, "coupling")

\* setattr(self.parameters, "<name>_{level}_{depth}", rev.params)
Registered(layer, level, depth) ==
    [k \in {<<level, depth, LayerNames(layer.kind)[i]>> : i \in 1..Len(layer.arr)} |->
        layer.arr[NameIdx(k[3]) - NameIdx(LayerNames(layer.kind)[1]) + 1]]

\* Variant: the flow keeps the forward order.
flow_forward_order(rev_actnorm, rev_conv_1x1, rev_coupling_layer) ==
    <<rev_actnorm, rev_conv_1x1, rev_coupling_layer>>

\* flow.append(rev_coupling_layer); flow.append(rev_conv_1x1); flow.append(rev_actnorm)
flow(rev_actnorm, rev_conv_1x1, rev_coupling_layer) ==
    <<rev_coupling_layer, rev_conv_1x1, rev_actnorm>>

\* GenerativeModel.__init__, body of the loops for one (level, depth).
GenerativeFlow(g, level, depth) ==
    LET source == map_flows_level[level][depth]
        rev_actnorm == reverse_actnorm(source[1], g)
        rev_conv_1x1 == reverse_conv_1x1(source[2], rev_actnorm)
        rev_coupling_layer == reverse_coupling_layer(source[3], rev_conv_1x1)
    IN [ok |-> rev_coupling_layer.ok,
        h |-> rev_coupling_layer.h,
        alloc |-> rev_coupling_layer.alloc,
        params |-> Registered(rev_actnorm.layer, level, depth)
                   @@ Registered(rev_conv_1x1.layer, level, depth)
                   @@ Registered(rev_coupling_layer.layer, level, depth)
                   @@ g.params,
        flows |-> (<<level, depth>> :>
                     flow(rev_actnorm.layer, rev_conv_1x1.layer, rev_coupling_layer.layer))
                  @@ g.flows]

RECURSIVE GenerativeFlows(_, _)
GenerativeFlows(g, i) ==
    IF i >= hp.levels * hp.depth_per_level \/ ~g.ok THEN g
    ELSE GenerativeFlows(
            GenerativeFlow(g, i \div hp.depth_per_level, i % hp.depth_per_level), i + 1)

GenerativeModel_init ==
    GenerativeFlows([ok |-> TRUE, h |-> heap, alloc |-> {}, params |-> <<>>, flows |-> <<>>], 0)

\* InferenceModel.reverse(): return GenerativeModel(self). The model built
\* replaces the program's previous GenerativeModel, whose arrays are released.
reverse ==
    LET g == GenerativeModel_init
        built == [built |-> TRUE, flows |-> g.flows, params |-> g.params,
                  source |-> ParamVals(g.params, g.h)]
    IN /\ gen' = IF g.ok THEN built ELSE gen
       /\ heap' = Restrict(g.h, Reachable(params, gen'))
       /\ res' = [op |-> "reverse", ok |-> g.ok, before |-> ParamVals(params, heap)]
       /\ UNCHANGED <<hp, need_initialize, map_flows_level, params, hist, save_vars>>

--------------------------------------------------------------------------
\* GenerativeModel.factor_z(z): squeeze (with the default factor) and split,
\* level by level.
FactorLevel(fz, level) ==
    LET sq == squeeze(fz.z, DefaultFactor)
    IN IF ~sq.ok THEN [fz EXCEPT !.ok = FALSE]
       ELSE IF level = hp.levels - 1
            THEN [fz EXCEPT !.z = sq, !.out = Append(@, sq)]
            ELSE [fz EXCEPT !.z = SliceHigh(sq), !.out = Append(@, SliceLow(sq))]

RECURSIVE FactorLevels(_, _)
FactorLevels(fz, level) ==
    IF level >= hp.levels \/ ~fz.ok THEN fz
    ELSE FactorLevels(FactorLevel(fz, level), level + 1)

factor_z(z) == FactorLevels([ok |-> TRUE, z |-> z, out |-> <<>>], 0)

\* factorized_z[i] for a negative Python index i
Index(list, i) == IF -i <= Len(list) THEN list[Len(list) + i + 1] ELSE Raised

\* out = rev_layer(out)
Backward(run, layer, level, depth) ==
    IF ~run.ok THEN run
    ELSE LET p == [j \in 1..Len(layer.arr) |-> heap[layer.arr[j]]]
             y == LayerReverse(layer.kind, layer.channels, p, run.out)
         IN IF y.ok
            THEN [run EXCEPT !.out = y,
                             !.log = Append(@, Executed(layer, level, depth))]
            ELSE [run EXCEPT !.ok = FALSE]

\* rev_coupling_layer, rev_conv_1x1, rev_actnorm = self[level][depth], applied
\* in this order
GenerateStep(run, level, depth) ==
    LET f == gen.flows[<<level, depth>>]
    IN Backward(Backward(Backward(run, f[1], level, depth),
                         f[2], level, depth),
                f[3], level, depth)

RECURSIVE GenerateDepths(_, _, _)
GenerateDepths(run, level, depth) ==
    IF depth < 0 \/ ~run.ok THEN run
    ELSE GenerateDepths(GenerateStep(run, level, depth), level, depth - 1)

\* out = unsqueeze(out); if level > 0: i -= 1; out = concat((factorized_z[i], out))
GenerateJoin(run, level, factorized_z) ==
    LET up == Set(run, unsqueeze(run.out, DefaultFactor))
    IN IF ~run.ok THEN run
       ELSE IF level > 0 /\ up.ok
            THEN Set([up EXCEPT !.i = @ - 1], concat(Index(factorized_z, up.i - 1), up.out))
            ELSE up

RECURSIVE GenerateLevels(_, _, _)
GenerateLevels(run, level, factorized_z) ==
    IF level < 0 \/ ~run.ok THEN run
    ELSE GenerateLevels(
            GenerateJoin(GenerateDepths(run, level, hp.depth_per_level - 1),
                         level, factorized_z),
            level - 1, factorized_z)

\* GenerativeModel.__call__(z): z is a list of latents (is_list) or one tensor.
GenerativeModel_call(z, is_list) ==
    LET fz == IF is_list THEN [ok |-> TRUE, out |-> z] ELSE factor_z(z)
        first == IF fz.ok THEN Index(fz.out, -1) ELSE Raised
        run == GenerateLevels([ok |-> first.ok, out |-> first, i |-> -1, log |-> <<>>],
                              hp.levels - 1, fz.out)
    IN [ok |-> run.ok, out |-> run.out, log |-> run.log,
        factorized_z |-> IF fz.ok THEN fz.out ELSE <<>>]

\* generator(z) with z the latents the encoder returns for x
GenerateFromLatents(x) ==
    LET enc == InferenceModel_call(x)
        r == GenerativeModel_call(enc.z, TRUE)
    IN /\ gen.built
       /\ enc.ok
       /\ res' = [op |-> "generate", list |-> TRUE, x |-> x, ok |-> r.ok, out |-> r.out,
                  log |-> r.log, factorized_z |-> r.factorized_z]
       /\ UNCHANGED <<model_vars, save_vars>>

\* generator(z) with z a single tensor
GenerateFromTensor(z) ==
    LET r == GenerativeModel_call(z, FALSE)
    IN /\ gen.built
       /\ res' = [op |-> "generate", list |-> FALSE, x |-> z, ok |-> r.ok, out |-> r.out,
                  log |-> r.log, factorized_z |-> r.factorized_z]
       /\ UNCHANGED <<model_vars, save_vars>>

--------------------------------------------------------------------------
\* The program: an InferenceModel constructed from hyperparameters and an
\* optional checkpoint path, then any sequence of its operations. The
\* checkpoint directory holds a complete parameter file.
Paths == {"none", "ckpt", "empty"}

Constructed(new) ==
    /\ map_flows_level = new.map_flows_level
    /\ params = new.params
    /\ heap = new.heap
    /\ need_initialize = new.need_initialize
    /\ hist = new.hist
    /\ res = new.res
    /\ gen = NoGen

Init ==
    /\ hp \in Hyperparameters
    /\ fs = (params_filename :> FileOf(hp, [k \in Keys(hp) |-> FileValue]))
    /\ pc = "idle"
    /\ tmp_filename = uuid4(0)
    /\ uuid_next = 1
    /\ \E path \in Paths, read_error \in BOOLEAN :
            Constructed(Construction(hp, path, read_error))

Next ==
    \/ \E x \in Inputs(hp) : Call(x)
    \/ \E x \in Inputs(hp) : initialize_actnorm_weights(x)
    \/ Train
    \/ reverse
    \/ \E x \in Inputs(hp) : GenerateFromLatents(x)
    \/ \E z \in Inputs(hp) : GenerateFromTensor(z)

Spec == Init /\ [][Next]_vars

--------------------------------------------------------------------------
\* InferenceModel.serialize(path) -> serialize_parameter(path, "model.hdf5",
\* self.parameters), step by step, beside a process that reads the canonical
\* file. The program is inside serialize while pc # "idle".

\* Variant: the canonical name is used for the file being written.
serialize_canonical_filename(n) == params_filename

\* tmp_filename = str(uuid.uuid4())
serialize_tmp_filename(n) == uuid4(n)

Remove(dir, name) == [f \in DOMAIN dir \ {name} |-> dir[f]]

\* save_hdf5 opens os.path.join(path, tmp_filename) for writing
SaveOpen ==
    /\ pc = "idle"
    /\ uuid_next <= MaxSaves
    /\ tmp_filename' = serialize_tmp_filename(uuid_next)
    /\ uuid_next' = uuid_next + 1
    /\ fs' = (tmp_filename' :> <<>>) @@ fs
    /\ pc' = "save_hdf5"
    /\ res' = [op |-> "serialize"]
    /\ UNCHANGED model_vars

\* save_hdf5 writes the next array
SaveWrite ==
    /\ pc = "save_hdf5"
    /\ ~Complete(hp, fs[tmp_filename])
    /\ LET file == FileOf(hp, ParamVals(params, heap))
           n == Len(fs[tmp_filename])
       IN fs' = [fs EXCEPT ![tmp_filename] = Append(@, file[n + 1])]
    /\ UNCHANGED <<model_vars, res, pc, tmp_filename, uuid_next>>

\* save_hdf5 returns
SaveClose ==
    /\ pc = "save_hdf5"
    /\ Complete(hp, fs[tmp_filename])
    /\ pc' = "rename"
    /\ UNCHANGED <<model_vars, res, fs, tmp_filename, uuid_next>>

\* save_hdf5 raises (disk full, I/O error): the exception leaves serialize
SaveRaise ==
    /\ pc = "save_hdf5"
    /\ pc' = "idle"
    /\ res' = [op |-> "serialize", ok |-> FALSE, raised |-> "save_hdf5"]
    /\ UNCHANGED <<model_vars, fs, tmp_filename, uuid_next>>

\* os.rename(tmp, canonical) replaces the canonical entry in one step
Rename ==
    /\ pc = "rename"
    /\ fs' = (params_filename :> fs[tmp_filename]) @@ Remove(fs, tmp_filename)
    /\ pc' = "idle"
    /\ res' = [op |-> "serialize", ok |-> TRUE, raised |-> "no"]
    /\ UNCHANGED <<model_vars, tmp_filename, uuid_next>>

\* os.rename raises: the exception leaves serialize
RenameRaise ==
    /\ pc = "rename"
    /\ pc' = "idle"
    /\ res' = [op |-> "serialize", ok |-> FALSE, raised |-> "rename"]
    /\ UNCHANGED <<model_vars, fs, tmp_filename, uuid_next>>

\* Another process opens the canonical file and reads it.
Reader ==
    /\ res' = [op |-> "read", exists |-> Exists("ckpt", params_filename),
               content |-> IF Exists("ckpt", params_filename)
                           THEN fs[params_filename] ELSE <<>>]
    /\ UNCHANGED <<model_vars, save_vars>>

SaveHp == [levels |-> 1, depth_per_level |-> 1, squeeze_factor |-> 2,
           lu_decomposition |-> FALSE]

InitSave ==
    /\ hp = SaveHp
    /\ fs = <<>>
    /\ pc = "idle"
    /\ tmp_filename = uuid4(0)
    /\ uuid_next = 1
    /\ Constructed(Construction(hp, "none", FALSE))

NextSave ==
    \/ \E path \in Paths, read_error \in BOOLEAN : InferenceModel_init(path, read_error)
    \/ Train
    \/ SaveOpen
    \/ SaveWrite
    \/ SaveClose
    \/ SaveRaise
    \/ Rename
    \/ RenameRaise
    \/ Reader

SpecSave == InitSave /\ [][NextSave]_vars

--------------------------------------------------------------------------
\* Properties.

P == ParamVals(params, heap)
NumLayers == 3 * hp.levels * hp.depth_per_level
\* The Generative Model holds the layer-wise inverses of the current
\* parameters of the Inference Model.
ReverseOfCurrent ==
    /\ gen.built
    /\ \A k \in Keys(hp) :
          heap[gen.params[k]] = IF k[3] = "W" THEN Inverse(P[k]) ELSE P[k]

\* C1 (round trip): whenever the Generative Model built by reverse() from the
\* current parameters is called on the latent list InferenceModel.__call__
\* returns for a valid input x, it returns x, with x's shape and content, for
\* every hyperparameter setting.
RoundTrip ==
    (res.op = "generate" /\ res.list /\ ReverseOfCurrent)
        => (res.ok /\ res.out = res.x)

\* The tensor InferenceModel.__call__ feeds to the flow steps of a level, for
\* a valid input (lines 131-165 with shape-preserving layers).
RECURSIVE Fed(_)
Fed(level) ==
    IF level = 0 THEN squeeze(Image(hp, 1), hp.squeeze_factor)
    ELSE squeeze(SliceHigh(Fed(level - 1)), hp.squeeze_factor)

\* C2 (channel-count progression): the channel count the parameters of level
\* L are built with is 3*f^2 for L = 0 and (channels of the half passed on by
\* level L-1) * f^2 for L > 0, i.e. the channel count of the tensor fed to
\* level L's flow steps, for every squeeze factor f >= 2 and every levels.
ChannelProgression ==
    \A level \in LevelRange(hp), depth \in DepthRange(hp), i \in 1..3 :
        /\ map_flows_level[level][depth][i].channels = Fed(level).c
        /\ level = 0 => Fed(level).c = 3 * hp.squeeze_factor * hp.squeeze_factor
        /\ level > 0 =>
              Fed(level).c = SliceHigh(Fed(level - 1)).c * hp.squeeze_factor * hp.squeeze_factor

\* C3 (mirrored execution order): the j-th layer GenerativeModel.__call__
\* executes is the reverse form (same kind, same level and depth, built from
\* the source layer of that index) of the layer InferenceModel.__call__
\* executes at position N+1-j of its N = 3*levels*depth_per_level layers; a
\* call that returns has executed all N, each flow step as reverse-coupling,
\* reverse-channel-mixing, reverse-actnorm.
MirroredOrder ==
    res.op = "generate" =>
        LET enc == InferenceModel_call(res.x)
        IN enc.ok =>
            /\ Len(enc.log) = NumLayers
            /\ res.ok => Len(res.log) = NumLayers
            /\ \A j \in 1..Len(res.log) :
                  LET fwd == enc.log[NumLayers + 1 - j]
                  IN /\ res.log[j].kind = fwd.kind
                     /\ res.log[j].slot = fwd.slot
                     /\ <<res.log[j].level, res.log[j].depth>> = <<fwd.level, fwd.depth>>
                     /\ <<fwd.level, fwd.depth>> = fwd.slot
            /\ \A j \in 1..Len(res.log) :
                  res.log[j].kind = <<"coupling", "conv_1x1", "actnorm">>[((j - 1) % 3) + 1]

MirroredOrderWitness ==
    /\ res.op = "generate" /\ res.ok
    /\ hp.levels > 1 /\ hp.depth_per_level > 1
    /\ Len(res.log) = NumLayers

Shapes(list) == [i \in 1..Len(list) |-> Shape(list[i])]

\* C4 (single-tensor input): given one tensor of image shape, factor_z yields
\* one latent per level with the shapes of the latents InferenceModel.__call__
\* produces for an input of that shape, and the call returns an image of the
\* shape of the tensor, for every hyperparameter setting.
SingleTensorInput ==
    (res.op = "generate" /\ ~res.list) =>
        LET enc == InferenceModel_call(res.x)
        IN enc.ok =>
            /\ Shapes(res.factorized_z) = Shapes(enc.z)
            /\ res.ok
            /\ Shape(res.out) = Shape(res.x)

\* C5 (parameter independence): no array of the Generative Model is an array
\* of the source Inference Model, every parameter of the Generative Model
\* still holds the value it was built with whatever was done to the source
\* since, and building it changed no parameter of the source.
ParameterIndependence ==
    /\ gen.built =>
          /\ Range(gen.params) \cap Range(params) = {}
          /\ DOMAIN gen.params = Keys(hp)
          /\ ParamVals(gen.params, heap) = gen.source
    /\ res.op = "reverse" => P = res.before

ParameterIndependenceWitness ==
    /\ gen.built
    /\ res.op \in {"train", "initialize"}
    /\ ~ReverseOfCurrent

\* C6 (one-time initialization): the initialization pass overwrites the
\* Actnorm parameters only in the needs-initialization state with no
\* persisted state loaded, and leaves the model initialized: so it overwrites
\* them at most once per model, and never after a load.
OneTimeInitialization ==
    /\ hist.inits <= 1
    /\ hist.loaded => hist.inits = 0
    /\ hist.inits > 0 => ~need_initialize

WellFormed(content) ==
    /\ Complete(hp, content)
    /\ \A i \in 1..Len(content) : content[i][1] = KeyAt(hp, i)

\* C7 (atomic save): the file being written never has the canonical name,
\* and at every moment of a save, failed or not, the canonical file is absent
\* or a complete parameter file, so every reader that finds it reads a
\* complete file.
AtomicSave ==
    /\ pc # "idle" => tmp_filename # params_filename
    /\ params_filename \in DOMAIN fs => WellFormed(fs[params_filename])
    /\ (res.op = "read" /\ res.exists) => WellFormed(res.content)

AtomicSaveWitness ==
    /\ res.op = "read" /\ res.exists
    /\ pc = "save_hdf5"
    /\ Len(fs[tmp_filename]) > 0 /\ ~Complete(hp, fs[tmp_filename])

\* C8 (save cleanup on failure): once serialize has returned or raised, the
\* directory holds no temporary file.
SaveCleanup ==
    pc = "idle" => DOMAIN fs \subseteq {params_filename}

\* C9 (load protocol): construction with an hdf5_path never raises, and it
\* clears need_initialize exactly when the canonical file exists and was
\* loaded in full (every parameter holds the value the file has for it).
LoadProtocol ==
    (res.op = "init" /\ res.path # "none") =>
        LET exists == Exists(res.path, params_filename)
            full == /\ exists
                    /\ WellFormed(fs[params_filename])
                    /\ \A i \in 1..NumKeys(hp) :
                          P[KeyAt(hp, i)] = fs[params_filename][i][2]
        IN /\ ~res.raised
           /\ need_initialize = ~res.loaded
           /\ res.loaded => full
           /\ ~exists => ~res.loaded

LoadProtocolWitness ==
    /\ res.op = "init" /\ res.path = "ckpt"
    /\ res.loaded /\ ~need_initialize
    /\ \E i \in 1..NumKeys(hp) : fs[params_filename][i][2].steps > 0

\* C10 (initialization data path): a pass that returns has visited every
\* (level, depth) once, in level-then-depth order, and took the statistics of
\* the Actnorm at (level, depth) from the tensor InferenceModel.__call__ feeds
\* to that Actnorm on the same batch once the pass is done; the pass changes
\* no parameter but Actnorm scale and bias.
InitializationDataPath ==
    res.op = "initialize" =>
        /\ \A k \in Keys(hp) : k[3] \notin {"scale", "bias"} => P[k] = res.before[k]
        /\ res.ok =>
              LET enc == InferenceModel_call(res.x)
              IN /\ Len(res.acts) = hp.levels * hp.depth_per_level
                 /\ enc.ok
                 /\ Len(enc.fed) = Len(res.acts)
                 /\ \A i \in 1..Len(res.acts) :
                       /\ res.acts[i].level = (i - 1) \div hp.depth_per_level
                       /\ res.acts[i].depth = (i - 1) % hp.depth_per_level
                       /\ enc.log[3 * (i - 1) + 1].kind = "actnorm"
                       /\ enc.log[3 * (i - 1) + 1].slot = <<res.acts[i].level, res.acts[i].depth>>
                       /\ res.acts[i].inp = enc.fed[i]

InitializationDataPathWitness ==
    /\ res.op = "initialize" /\ res.ok
    /\ hp.levels > 1 /\ hp.depth_per_level > 1
    /\ \E k \in Keys(hp) : P[k] # res.before[k]

====
